---------------------------- MODULE Spec2Model ----------------------------
(***************************************************************************)
(* Model of the IPMA MCP server (src/src/index.ts): the CallTool           *)
(* dispatcher and its six tool handlers.  A call runs synchronously up to  *)
(* each `await fetch(...)` / `await response.json()`; those two awaits are *)
(* the only suspension points.                                             *)
(*                                                                         *)
(* Representation.                                                         *)
(*   - JS strings that the code inspects (city, area, display names,       *)
(*     decimal strings) are sequences of one-character strings; opaque     *)
(*     strings are TLA+ strings.                                           *)
(*   - JS numbers carrying measurements are integers counting tenths       *)
(*     (-995 is -99.5).                                                    *)
(*   - A JS object is the sequence of its [key, val] entries in insertion  *)
(*     order; ObjectKeys gives the order Object.keys enumerates them.      *)
(*   - A result text is the sequence of the lines appended to `result`.    *)
(***************************************************************************)
EXTENDS Integers, Sequences, FiniteSets, TLC

VARIABLES pc, req, fetches, resp, caught, result

vars == <<pc, req, fetches, resp, caught, result>>

\* The calls of the model.  Spec starts call 1 only.
Calls == {1, 2}

-----------------------------------------------------------------------------
\* Bounds of the model.

\* Longest location catalog (distrits-islands.json) the upstream returns.
MaxCatalog == 3
\* Longest daily forecast series the upstream returns.
MaxSeries == 6
\* Longest seismic event list built from SeismicEvents.
MaxEvents == 2

-----------------------------------------------------------------------------
\* JavaScript values and strings.

Undefined == [t |-> "undefined"]
Str(s) == [t |-> "string", s |-> s]
Num(n) == [t |-> "number", n |-> n]
Obj == [t |-> "object"]

\* ToBoolean, as applied by `!x` and `x || y`.
Truthy(v) ==
    CASE v.t = "undefined" -> FALSE
      [] v.t = "string" -> v.s # <<>>
      [] v.t = "number" -> v.n # 0
      [] OTHER -> TRUE

\* x || y
OrElse(x, y) == IF Truthy(x) THEN x ELSE y

UpperMap ==
    ("A" :> "a") @@ ("B" :> "b") @@ ("C" :> "c") @@ ("D" :> "d") @@
    ("E" :> "e") @@ ("I" :> "i") @@ ("L" :> "l") @@ ("M" :> "m") @@
    ("N" :> "n") @@ ("O" :> "o") @@ ("R" :> "r") @@ ("S" :> "s") @@
    ("T" :> "t") @@ ("Z" :> "z")

\* String.prototype.toLowerCase on the alphabet of the model.
ToLowerCase(s) ==
    [i \in 1..Len(s) |-> IF s[i] \in DOMAIN UpperMap THEN UpperMap[s[i]] ELSE s[i]]

\* String.prototype.includes: sub occurs in s as a contiguous run.
Includes(s, sub) ==
    \E i \in 0..(Len(s) - Len(sub)) :
        \A j \in 1..Len(sub) : s[i + j] = sub[j]

\* slice(0, end) stopping one element early.
Slice0DropsLast(arr, end) ==
    LET n == Len(arr)
        k == IF end < 0 THEN (IF n + end < 0 THEN 0 ELSE n + end)
             ELSE (IF end > n THEN n ELSE end)
    IN  SubSeq(arr, 1, IF k > 0 THEN k - 1 ELSE 0)

\* Array.prototype.slice(0, end) for an integer end.
Slice0(arr, end) ==
    LET n == Len(arr)
        k == IF end < 0 THEN (IF n + end < 0 THEN 0 ELSE n + end)
             ELSE (IF end > n THEN n ELSE end)
    IN  SubSeq(arr, 1, k)

Digits ==
    ("0" :> 0) @@ ("1" :> 1) @@ ("2" :> 2) @@ ("3" :> 3) @@ ("4" :> 4) @@
    ("5" :> 5) @@ ("6" :> 6) @@ ("7" :> 7) @@ ("8" :> 8) @@ ("9" :> 9)

\* Length of the longest run of decimal digits of s starting at position i.
RECURSIVE DigitRun(_, _)
DigitRun(s, i) ==
    IF i <= Len(s) /\ s[i] \in DOMAIN Digits THEN 1 + DigitRun(s, i + 1) ELSE 0

\* Value of the decimal digits s[i..i+n-1].
RECURSIVE DigitsValue(_, _, _)
DigitsValue(s, i, n) ==
    IF n = 0 THEN 0 ELSE DigitsValue(s, i, n - 1) * 10 + Digits[s[i + n - 1]]

\* parseFloat: optional sign, digits, optional fraction, of the longest
\* prefix that parses; NaN when that prefix has no digit.  The number is in
\* tenths: the model's decimal strings carry at most one fractional digit.
ParseFloat(s) ==
    LET neg == Len(s) >= 1 /\ s[1] = "-"
        p0 == IF Len(s) >= 1 /\ s[1] \in {"-", "+"} THEN 2 ELSE 1
        ni == DigitRun(s, p0)
        dot == p0 + ni <= Len(s) /\ s[p0 + ni] = "."
        nf == IF dot THEN DigitRun(s, p0 + ni + 1) ELSE 0
        ip == DigitsValue(s, p0, ni)
        fp == IF nf = 0 THEN 0 ELSE Digits[s[p0 + ni + 1]]
        mag == ip * 10 + fp
    IN  IF ni = 0 /\ nf = 0 THEN [nan |-> TRUE, n |-> 0]
        ELSE [nan |-> FALSE, n |-> IF neg THEN 0 - mag ELSE mag]

\* Keys of a JS object: [n |-> the integer of an integer-like key, else -1,
\*                       s |-> the key's text].
Key(n, s) == [n |-> n, s |-> s]

\* Object.keys: integer-like keys in ascending order, then the other keys
\* in insertion order.  obj is the sequence of the object's entries.
RECURSIVE SortedIntKeys(_)
SortedIntKeys(ks) ==
    IF ks = {} THEN <<>>
    ELSE LET m == CHOOSE k \in ks : \A o \in ks : k.n <= o.n
         IN  <<m>> \o SortedIntKeys(ks \ {m})

\* The keys of obj that are not integer-like, in insertion order.
RECURSIVE OtherKeys(_)
OtherKeys(obj) ==
    IF obj = <<>> THEN <<>>
    ELSE (IF Head(obj).key.n < 0 THEN <<Head(obj).key>> ELSE <<>>) \o OtherKeys(Tail(obj))

ObjectKeys(obj) ==
    LET ints == {obj[i].key : i \in {j \in 1..Len(obj) : obj[j].key.n >= 0}}
    IN  SortedIntKeys(ints) \o OtherKeys(obj)

HasKey(obj, k) == \E i \in 1..Len(obj) : obj[i].key = k

\* obj[k] for a key the object has.
Get(obj, k) == obj[CHOOSE i \in 1..Len(obj) : obj[i].key = k].val

-----------------------------------------------------------------------------
\* Errors, effects and result texts.

\* A thrown JS Error that is not an McpError (FetchError, SyntaxError,
\* TypeError); message is the sequence of the pieces concatenated into it.
JsError(msg) == [mcp |-> FALSE, code |-> "none", message |-> <<msg>>]

\* new McpError(code, message)
McpError(code, message) == [mcp |-> TRUE, code |-> code, message |-> message]

NoError == [mcp |-> FALSE, code |-> "none", message |-> <<>>]

\* error instanceof Error ? error.message : String(error)
ErrorMessage(error) == error.message

\* One line appended to the result text: its label and the value
\* interpolated into it.
Line(k, v) == [k |-> k, v |-> v]

\* What a call does next: issue `await fetch(url)`, `await response.json()`,
\* return a text result, or throw.
DoFetch(u) == [e |-> "fetch", url |-> u, text |-> <<>>, err |-> NoError, caught |-> NoError]
DoJson == [e |-> "json", url |-> "", text |-> <<>>, err |-> NoError, caught |-> NoError]
DoReturn(t) == [e |-> "return", url |-> "", text |-> t, err |-> NoError, caught |-> NoError]
DoThrow(x) == [e |-> "throw", url |-> "", text |-> <<>>, err |-> x, caught |-> NoError]

\* A settled await: the value it resolved to, or the error it rejected with.
Resolved(v) == [ok |-> TRUE, v |-> v, err |-> NoError]
Rejected(x) == [ok |-> FALSE, v |-> Undefined, err |-> x]

\* The JSON values parsed so far: the results of the even-numbered awaits.
Jsons(settled) ==
    [i \in 1..(Len(settled) \div 2) |-> settled[2 * i].v]

\* A handler body that goes on with its next statement as soon as a fetch
\* resolves, without awaiting response.json().
BodyNoJsonAwait(settled, step) ==
    IF \E i \in 1..Len(settled) : ~settled[i].ok
    THEN DoThrow(settled[Len(settled)].err)
    ELSE step

\* A handler body between its awaits.  settled is the sequence of the awaits
\* settled so far (fetch, json, fetch, json, ...); step is what the body
\* does once it holds the parsed values Jsons(settled).  A rejected await
\* throws at the await; a resolved fetch is followed by
\* `await response.json()`.
Body(settled, step) ==
    IF \E i \in 1..Len(settled) : ~settled[i].ok
    THEN DoThrow(settled[Len(settled)].err)
    ELSE IF Len(settled) % 2 = 1 THEN DoJson
    ELSE step

\* The handler's catch, throwing its prefix without the caught message.
TryCatchDropsMessage(eff, prefix) ==
    IF eff.e = "throw"
    THEN [eff EXCEPT !.err = McpError("InternalError", <<prefix>>), !.caught = eff.err]
    ELSE eff

\* try { body } catch (error) { throw new McpError(InternalError, prefix + message) }
TryCatch(eff, prefix) ==
    IF eff.e = "throw"
    THEN [eff EXCEPT !.err = McpError("InternalError", <<prefix>> \o ErrorMessage(eff.err)),
                     !.caught = eff.err]
    ELSE eff

\* `${this.baseUrl}/<path>`, with the id interpolated into the path (0: none).
baseUrl == "https://api.ipma.pt/open-data"
Url(path, id) == [base |-> baseUrl, path |-> path, id |-> id]

\* An ApiResponse<T>; hasData is FALSE for a JSON value without `data`.
Api(data, dataUpdate) == [hasData |-> TRUE, data |-> data, dataUpdate |-> dataUpdate]
NoData == [hasData |-> FALSE, data |-> <<>>, dataUpdate |-> "undefined"]

\* The TypeError of reading property prop of undefined (or of null).
TypeErrorReading(prop) ==
    [mcp |-> FALSE, code |-> "none",
     message |-> <<"Cannot read properties of undefined (reading '", prop, "')">>]

\* The TypeError of calling x.method on a value that has no such method.
TypeErrorNotFunction(expr) ==
    [mcp |-> FALSE, code |-> "none", message |-> <<expr, " is not a function">>]

-----------------------------------------------------------------------------
\* get_weather_forecast

\* loc.local.toLowerCase().includes(city.toLowerCase()), for a string city
CityMatches(loc, city) ==
    Includes(ToLowerCase(loc.local), ToLowerCase(city.s))

\* A find that keeps the last element the test accepts.
FindLastLocation(data, city) ==
    IF \E i \in 1..Len(data) : CityMatches(data[i], city)
    THEN CHOOSE i \in 1..Len(data) :
            CityMatches(data[i], city)
            /\ \A j \in (i + 1)..Len(data) : ~CityMatches(data[j], city)
    ELSE 0

\* locationsData.data.find(...): the index of the first element the test
\* accepts, 0 when it accepts none.
FindLocation(data, city) ==
    IF \E i \in 1..Len(data) : CityMatches(data[i], city)
    THEN CHOOSE i \in 1..Len(data) :
            CityMatches(data[i], city) /\ \A j \in 1..(i - 1) : ~CityMatches(data[j], city)
    ELSE 0

\* weatherTypesData.data.reduce(...): the last catalog entry of each id
\* is the one the map keeps.
WeatherTypeOf(catalog, id) ==
    LET hits == {i \in 1..Len(catalog) : catalog[i].idWeatherType = id}
    IN  IF hits = {} THEN "Desconhecido"
        ELSE catalog[CHOOSE i \in hits : \A j \in hits : j <= i].descWeatherTypePT

\* The five lines of one forecast day.
DayLines(day, catalog) ==
    << Line("Dia", day.forecastDate),
       Line("Temperatura", <<day.tMin, day.tMax>>),
       Line("Condicoes", WeatherTypeOf(catalog, day.idWeatherType)),
       Line("Precipitacao", day.precipitaProb),
       Line("Vento", day.predWindDir) >>

RECURSIVE ForecastLines(_, _)
ForecastLines(daysSeq, catalog) ==
    IF daysSeq = <<>> THEN <<>>
    ELSE DayLines(Head(daysSeq), catalog) \o ForecastLines(Tail(daysSeq), catalog)

\* The body of getWeatherForecast holding the parsed values js.
ForecastStep(city, days, js) ==
    IF Len(js) = 0 THEN DoFetch(Url("/distrits-islands.json", 0))
    ELSE
    LET locationsData == js[1] IN
    IF ~locationsData.hasData THEN DoThrow(TypeErrorReading("find"))
    ELSE IF city.t # "string" /\ locationsData.data # <<>>
    THEN DoThrow(TypeErrorNotFunction("city.toLowerCase"))
    ELSE
    LET idx == IF city.t # "string" THEN 0
               ELSE FindLocation(locationsData.data, city)
    IN
    IF idx = 0 THEN DoReturn(<<Line("CidadeNaoEncontrada", city)>>)
    ELSE
    LET location == locationsData.data[idx] IN
    IF Len(js) = 1
    THEN DoFetch(Url("/forecast/meteorology/cities/daily/", location.globalIdLocal))
    ELSE IF Len(js) = 2 THEN DoFetch(Url("/weather-type-classe.json", 0))
    ELSE
    LET forecastData == js[2]
        weatherTypesData == js[3]
    IN
    IF ~weatherTypesData.hasData THEN DoThrow(TypeErrorReading("reduce"))
    ELSE IF ~forecastData.hasData THEN DoThrow(TypeErrorReading("slice"))
    ELSE
    LET limitedData == Slice0(forecastData.data, days.n) IN
    DoReturn(<< Line("Previsao", location.local),
                Line("Coordenadas", <<location.latitude, location.longitude>>),
                Line("Atualizacao", forecastData.dataUpdate) >>
             \o ForecastLines(limitedData, weatherTypesData.data))

getWeatherForecast(city, days, settled) ==
    TryCatch(Body(settled, ForecastStep(city, days, Jsons(settled))),
             "Erro ao obter previsao: ")

-----------------------------------------------------------------------------
\* get_weather_warnings

\* A JSON array; isArray is FALSE for a JSON value that is not an array.
Arr(items) == [isArray |-> TRUE, items |-> items]
NotArray == [isArray |-> FALSE, items |-> <<>>]

\* The timestamps `new Date` parses.
IsoTimes == {"2025-01-01T10:00:00", "2025-01-02T10:00:00"}

\* new Date(t).toLocaleString('pt-PT')
ToLocaleString(t) == IF t \in IsoTimes THEN <<"pt-PT", t>> ELSE <<"Invalid Date">>

WarningLines(warning) ==
    << Line("Aviso", warning.awarenessTypeName),
       Line("Area", warning.idAreaAviso),
       Line("Nivel", warning.awarenessLevelID),
       Line("De", ToLocaleString(warning.startTime)),
       Line("Ate", ToLocaleString(warning.endTime)) >>
    \o (IF warning.text # "" THEN <<Line("Detalhes", warning.text)>> ELSE <<>>)
    \o <<Line("", "")>>

RECURSIVE AllWarningLines(_)
AllWarningLines(data) ==
    IF data = <<>> THEN <<>>
    ELSE WarningLines(Head(data)) \o AllWarningLines(Tail(data))

WarningsStep(js) ==
    IF Len(js) = 0 THEN DoFetch(Url("/forecast/warnings/warnings_www.json", 0))
    ELSE
    LET data == js[1] IN
    IF ~data.isArray \/ Len(data.items) = 0
    THEN DoReturn(<<Line("SemAvisos", "")>>)
    ELSE IF \E i \in 1..Len(data.items) : data.items[i].isNull
    THEN DoThrow(TypeErrorReading("startTime"))
    ELSE DoReturn(<<Line("AvisosAtivos", "")>> \o AllWarningLines(data.items))

getWeatherWarnings(settled) ==
    TryCatch(Body(settled, WarningsStep(Jsons(settled))), "Erro ao obter avisos: ")

-----------------------------------------------------------------------------
\* get_seismic_data

Continent == <<"c", "o", "n", "t", "i", "n", "e", "n", "t">>
Azores == <<"a", "z", "o", "r", "e", "s">>
Madeira == <<"m", "a", "d", "e", "i", "r", "a">>
All == <<"a", "l", "l">>

\* Only the 10 most recent events are shown.
SeismicLimit == 10

\* The switch with its default falling into the azores case.
AreaIdDefaultAzores(area) ==
    LET a == ToLowerCase(area) IN
    CASE a = Continent -> 1
      [] a = Madeira -> 3
      [] OTHER -> 2

\* switch (area.toLowerCase())
AreaId(area) ==
    LET a == ToLowerCase(area) IN
    CASE a = Continent -> 1
      [] a = Azores -> 2
      [] a = Madeira -> 3
      [] OTHER -> 1

EarthquakeLines(earthquake) ==
    << Line("Evento", ToLocaleString(earthquake.time)),
       Line("Local", IF earthquake.obsRegion # "" THEN earthquake.obsRegion ELSE "N/A"),
       Line("Magnitude", <<earthquake.magnitud, earthquake.magType>>),
       Line("Profundidade", earthquake.depth),
       Line("Coordenadas", <<earthquake.lat, earthquake.lon>>) >>

RECURSIVE AllEarthquakeLines(_)
AllEarthquakeLines(data) ==
    IF data = <<>> THEN <<>>
    ELSE EarthquakeLines(Head(data)) \o AllEarthquakeLines(Tail(data))

\* The title line of the seismic listing.
SeismicTitle(area) == Line("DadosSismicos", area)

SeismicStep(area, js) ==
    IF Len(js) = 0 THEN DoFetch(Url("/observation/seismic/", AreaId(area.s)))
    ELSE
    LET data == js[1] IN
    IF ~data.hasData \/ Len(data.data) = 0
    THEN DoReturn(<<Line("SemDadosSismicos", "")>>)
    ELSE DoReturn(<< SeismicTitle(area.s),
                     Line("Atualizacao", data.data[1].dataUpdate) >>
                  \o AllEarthquakeLines(Slice0(data.data, SeismicLimit)))

getSeismicData(area, settled) ==
    TryCatch(IF area.t # "string" THEN DoThrow(TypeErrorNotFunction("area.toLowerCase"))
             ELSE Body(settled, SeismicStep(area, Jsons(settled))),
             "Erro ao obter dados sismicos: ")

-----------------------------------------------------------------------------
\* get_locations

\* The object built by `if (!acc[k]) acc[k] = []; acc[k].push(x)` over arr,
\* keys[i] being the key of arr[i]: one entry per distinct key, inserted when
\* the key is first seen, holding the elements of that key in array order.
RECURSIVE GroupBy(_, _, _)
GroupBy(arr, keys, acc) ==
    IF arr = <<>> THEN acc
    ELSE LET x == Head(arr)
             k == Head(keys)
             next == IF HasKey(acc, k)
                     THEN [i \in 1..Len(acc) |->
                             IF acc[i].key = k
                             THEN [acc[i] EXCEPT !.val = Append(@, x)]
                             ELSE acc[i]]
                     ELSE Append(acc, [key |-> k, val |-> <<x>>])
         IN  GroupBy(Tail(arr), Tail(keys), next)

\* Object.values, were it to enumerate every key in insertion order.
ObjectValuesInsertionOrder(obj) == [i \in 1..Len(obj) |-> obj[i].val]

\* Object.values(obj)
ObjectValues(obj) ==
    LET ks == ObjectKeys(obj) IN [i \in 1..Len(ks) |-> Get(obj, ks[i])]

RECURSIVE LocationLines(_)
LocationLines(locations) ==
    IF locations = <<>> THEN <<>>
    ELSE <<Line("Local", <<Head(locations).local, Head(locations).latitude,
                           Head(locations).longitude>>)>>
         \o LocationLines(Tail(locations))

RECURSIVE DistrictLines(_)
DistrictLines(groups) ==
    IF groups = <<>> THEN <<>>
    ELSE <<Line("Regiao", Head(groups)[1].idDistrito)>>
         \o LocationLines(Head(groups)) \o <<Line("", "")>>
         \o DistrictLines(Tail(groups))

LocationsStep(js) ==
    IF Len(js) = 0 THEN DoFetch(Url("/distrits-islands.json", 0))
    ELSE
    LET data == js[1] IN
    IF ~data.hasData THEN DoThrow(TypeErrorReading("forEach"))
    ELSE
    LET groupedByDistrict ==
            GroupBy(data.data,
                    [i \in 1..Len(data.data) |-> Key(data.data[i].idDistrito, "")], <<>>)
    IN  DoReturn(<<Line("LocaisDisponiveis", "")>>
                 \o DistrictLines(ObjectValues(groupedByDistrict)))

getLocations(settled) ==
    TryCatch(Body(settled, LocationsStep(Jsons(settled))), "Erro ao obter locais: ")

-----------------------------------------------------------------------------
\* get_weather_stations

\* The "not measured" sentinel of the station readings, -99, in tenths.
Sentinel == -990

\* At most the first 15 stations of the bucket are shown.
StationLimit == 15

\* stationsInfo[stationId] || `Estacao ${stationId}` ; the reduce keeps the
\* last catalog entry of each id.
StationName(stationsData, stationId) ==
    LET hits == {i \in 1..Len(stationsData) : stationsData[i].idEstacao = stationId}
        name == IF hits = {} THEN ""
                ELSE stationsData[CHOOSE i \in hits : \A j \in hits : j <= i].localEstacao
    IN  IF name # "" THEN <<name>> ELSE <<"Estacao ", stationId.n>>

\* if (obs.<field> > -99) result += ...
Measured(value) == value > Sentinel

ReadingLines(obs) ==
    (IF Measured(obs.temperatura) THEN <<Line("Temperatura", obs.temperatura)>> ELSE <<>>)
    \o (IF Measured(obs.humidade) THEN <<Line("Humidade", obs.humidade)>> ELSE <<>>)
    \o (IF Measured(obs.pressao) THEN <<Line("Pressao", obs.pressao)>> ELSE <<>>)
    \o (IF Measured(obs.intensidadeVento)
        THEN <<Line("Vento", obs.intensidadeVento)>> ELSE <<>>)
    \o (IF Measured(obs.precAcumulada)
        THEN <<Line("Precipitacao", obs.precAcumulada)>> ELSE <<>>)

RECURSIVE StationLines(_, _, _)
StationLines(stationIds, latestObservations, stationsData) ==
    IF stationIds = <<>> THEN <<>>
    ELSE <<Line("Estacao", StationName(stationsData, Head(stationIds)))>>
         \o ReadingLines(Get(latestObservations, Head(stationIds)))
         \o <<Line("", "")>>
         \o StationLines(Tail(stationIds), latestObservations, stationsData)

StationsStep(js) ==
    IF Len(js) = 0
    THEN DoFetch(Url("/observation/meteorology/stations/observations.json", 0))
    ELSE IF Len(js) = 1
    THEN DoFetch(Url("/observation/meteorology/stations/stations.json", 0))
    ELSE
    LET data == js[1]
        stationsData == js[2]
    IN
    IF ~stationsData.isArray THEN DoThrow(TypeErrorNotFunction("stationsData.reduce"))
    ELSE
    LET timestamps == ObjectKeys(data) IN
    IF timestamps = <<>>
    THEN DoThrow([mcp |-> FALSE, code |-> "none",
                  message |-> <<"Cannot convert undefined or null to object">>])
    ELSE
    LET latestTimestamp == timestamps[Len(timestamps)]
        latestObservations == Get(data, latestTimestamp)
        stationIds == Slice0(ObjectKeys(latestObservations), StationLimit)
    IN
    IF \E i \in 1..Len(stationIds) : Get(latestObservations, stationIds[i]).isNull
    THEN DoThrow(TypeErrorReading("temperatura"))
    ELSE DoReturn(<< Line("Observacoes", ""),
                     Line("ObservacoesDe", latestTimestamp.s) >>
                  \o StationLines(stationIds, latestObservations, stationsData.items))

getWeatherStations(settled) ==
    TryCatch(Body(settled, StationsStep(Jsons(settled))),
             "Erro ao obter dados das estacoes: ")

-----------------------------------------------------------------------------
\* get_uv_forecast

\* At most the first 3 dates, and the first 10 entries of each, are shown.
UvDateLimit == 3
UvEntryLimit == 10

\* The chain with exclusive upper bounds.
UvCategoryExclusive(uvLevel) ==
    IF ~uvLevel.nan /\ uvLevel.n < 20 THEN "Baixo"
    ELSE IF ~uvLevel.nan /\ uvLevel.n < 50 THEN "Moderado"
    ELSE IF ~uvLevel.nan /\ uvLevel.n < 70 THEN "Alto"
    ELSE IF ~uvLevel.nan /\ uvLevel.n < 100 THEN "Muito Alto"
    ELSE "Extremo"

\* The if / else-if chain over uvLevel = parseFloat(uv.iUv), in tenths.  Every
\* comparison with NaN is false.
UvCategory(uvLevel) ==
    IF ~uvLevel.nan /\ uvLevel.n <= 20 THEN "Baixo"
    ELSE IF ~uvLevel.nan /\ uvLevel.n <= 50 THEN "Moderado"
    ELSE IF ~uvLevel.nan /\ uvLevel.n <= 70 THEN "Alto"
    ELSE IF ~uvLevel.nan /\ uvLevel.n <= 100 THEN "Muito Alto"
    ELSE "Extremo"

\* locationMap[uv.globalIdLocal] || `Local ${uv.globalIdLocal}` ; the reduce
\* keeps the last catalog entry of each id.
LocationName(catalog, id) ==
    LET hits == {i \in 1..Len(catalog) : catalog[i].globalIdLocal = id}
        name == IF hits = {} THEN <<>>
                ELSE catalog[CHOOSE i \in hits : \A j \in hits : j <= i].local
    IN  IF name # <<>> THEN <<name>> ELSE <<"Local ", id>>

UvLine(uv, catalog) ==
    Line("UV", [local |-> LocationName(catalog, uv.globalIdLocal),
                iUv |-> uv.iUv,
                categoria |-> UvCategory(ParseFloat(uv.iUv)),
                hora |-> uv.intervaloHora])

RECURSIVE UvLines(_, _)
UvLines(entries, catalog) ==
    IF entries = <<>> THEN <<>>
    ELSE <<UvLine(Head(entries), catalog)>> \o UvLines(Tail(entries), catalog)

RECURSIVE UvDateLines(_, _, _)
UvDateLines(dates, uvByDate, catalog) ==
    IF dates = <<>> THEN <<>>
    ELSE <<Line("Data", Head(dates).s)>>
         \o UvLines(Slice0(Get(uvByDate, Head(dates)), UvEntryLimit), catalog)
         \o <<Line("", "")>>
         \o UvDateLines(Tail(dates), uvByDate, catalog)

UvStep(js) ==
    IF Len(js) = 0 THEN DoFetch(Url("/forecast/meteorology/uv/uv.json", 0))
    ELSE
    LET data == js[1] IN
    IF ~data.isArray \/ Len(data.items) = 0
    THEN DoReturn(<<Line("SemDadosUV", "")>>)
    ELSE IF Len(js) = 1 THEN DoFetch(Url("/distrits-islands.json", 0))
    ELSE
    LET locationsData == js[2] IN
    IF ~locationsData.hasData THEN DoThrow(TypeErrorReading("reduce"))
    ELSE
    LET uvByDate ==
            GroupBy(data.items, [i \in 1..Len(data.items) |-> data.items[i].data], <<>>)
    IN
    DoReturn(<<Line("PrevisaoUV", "")>>
             \o UvDateLines(Slice0(ObjectKeys(uvByDate), UvDateLimit), uvByDate,
                            locationsData.data))

getUVForecast(settled) ==
    TryCatch(Body(settled, UvStep(Jsons(settled))), "Erro ao obter previsao UV: ")

-----------------------------------------------------------------------------
\* The CallToolRequestSchema handler.

ToolNames ==
    {"get_weather_forecast", "get_weather_warnings", "get_seismic_data",
     "get_locations", "get_weather_stations", "get_uv_forecast"}

\* The default of `days`.
DefaultDays == 5

\* if (!toolArgs?.city), with only the empty string taken as missing.
CityMissingOnlyEmpty(city) == city.t = "string" /\ city.s = <<>>

\* if (!toolArgs?.city)
CityMissing(city) == ~Truthy(city)

\* The switch over the tool name, inside the dispatcher's try block.
\* toolArgs?.x is undefined when the request carries no arguments.
Switch(name, toolArgs, settled) ==
    LET city == IF toolArgs.present THEN toolArgs.city ELSE Undefined
        area == IF toolArgs.present THEN toolArgs.area ELSE Undefined
    IN
    CASE name = "get_weather_forecast" ->
           IF CityMissing(city)
           THEN DoThrow(McpError("InvalidParams", <<"City parameter is required">>))
           ELSE getWeatherForecast(city, OrElse(toolArgs.days, Num(DefaultDays)), settled)
      [] name = "get_weather_warnings" -> getWeatherWarnings(settled)
      [] name = "get_seismic_data" -> getSeismicData(OrElse(area, Str(All)), settled)
      [] name = "get_locations" -> getLocations(settled)
      [] name = "get_weather_stations" -> getWeatherStations(settled)
      [] name = "get_uv_forecast" -> getUVForecast(settled)
      [] OTHER -> DoThrow(McpError("MethodNotFound", <<"Tool ", name, " not found">>))

\* catch (error) of the dispatcher, wrapping every error as InternalError.
OuterCatchRewraps(error) ==
    McpError("InternalError", <<"Error: ">> \o ErrorMessage(error))

\* catch (error) of the dispatcher: an McpError passes through, anything
\* else is wrapped as InternalError.
OuterCatch(error) ==
    IF error.mcp THEN error
    ELSE McpError("InternalError", <<"Error: ">> \o ErrorMessage(error))

\* try { switch ... } catch (error) { ... } around the effect of the switch.
OuterTry(eff) ==
    IF eff.e = "throw"
    THEN [eff EXCEPT !.err = OuterCatch(eff.err),
                     !.caught = IF eff.caught = NoError THEN eff.err ELSE eff.caught]
    ELSE eff

\* The whole request handler as far as the awaits settled so far take it.
CallToolHandler(request, settled) ==
    OuterTry(Switch(request.name, request.arguments, settled))

-----------------------------------------------------------------------------
\* The requests a client sends.

NoArguments ==
    [present |-> FALSE, city |-> Undefined, days |-> Undefined, area |-> Undefined]

Arguments(city, days, area) ==
    [present |-> TRUE, city |-> city, days |-> days, area |-> area]

\* All sequences over S of length at most n.
SeqsUpTo(S, n) == UNION {[1..k -> S] : k \in 0..n}

\* The sequences of SeqsUpTo(S, n) without a repeated element.
DistinctSeqsUpTo(S, n) ==
    {q \in SeqsUpTo(S, n) : \A i, j \in 1..Len(q) : i # j => q[i] # q[j]}

CityStrings ==
    { <<"b">>, <<"B">>, <<"a", "b">>, <<"A", "B">>, <<"b", "a">>, <<"a", "a">>,
      <<"b", "A", "b">>, <<"a", "b", "a">> }

CityValues ==
    {Undefined, Str(<<>>), Num(0), Num(42), Obj} \cup {Str(c) : c \in CityStrings}

DaysValues == {Undefined} \cup {Num(n) : n \in (0 - 2)..(MaxSeries + 1)}

UnknownArea == <<"n", "o", "r", "t", "e">>

AreaValues ==
    { Undefined, Str(<<>>), Num(5), Str(All), Str(Continent), Str(Azores),
      Str(Madeira), Str(UnknownArea),
      Str(<<"A", "z", "o", "r", "e", "s">>),
      Str(<<"C", "O", "N", "T", "I", "N", "E", "N", "T">>),
      Str(<<"M", "a", "d", "e", "i", "r", "a">>) }

Requests ==
    {[name |-> "get_weather_forecast", arguments |-> NoArguments]}
    \cup {[name |-> "get_weather_forecast", arguments |-> Arguments(c, d, Undefined)] :
            c \in CityValues, d \in DaysValues}
    \cup {[name |-> "get_seismic_data", arguments |-> NoArguments]}
    \cup {[name |-> "get_seismic_data", arguments |-> Arguments(Undefined, Undefined, a)] :
            a \in AreaValues}
    \cup {[name |-> n, arguments |-> a] :
            n \in {"get_weather_warnings", "get_locations", "get_weather_stations",
                   "get_uv_forecast", "get_forecast", ""},
            a \in {NoArguments, Arguments(Undefined, Undefined, Undefined)}}

-----------------------------------------------------------------------------
\* What the upstream API answers.

Location(id, local, distrito) ==
    [globalIdLocal |-> id, local |-> local, idDistrito |-> distrito,
     latitude |-> "38.7", longitude |-> "-9.1"]

Locations ==
    { Location(11, <<"A", "b">>, 2),
      Location(22, <<"b", "A", "b">>, 1),
      Location(33, <<"B">>, 2) }

LocationCatalogs ==
    {Api(q, "undefined") : q \in DistinctSeqsUpTo(Locations, MaxCatalog)} \cup {NoData}

ForecastDay(i) ==
    [forecastDate |-> i, tMin |-> "10.1", tMax |-> "20.2", idWeatherType |-> i % 3,
     precipitaProb |-> "0.0", predWindDir |-> "N", classWindSpeed |-> 1]

ForecastSeries ==
    {Api([i \in 1..n |-> ForecastDay(i)], "2025-01-01T09:00:00") : n \in 0..MaxSeries}
    \cup {NoData}

WeatherType(id, pt) == [idWeatherType |-> id, descWeatherTypePT |-> pt]

WeatherTypeCatalogs ==
    { Api(<<>>, "undefined"),
      Api(<<WeatherType(0, "Sem informacao"), WeatherType(1, "Ceu limpo")>>, "undefined"),
      Api(<<WeatherType(1, "Ceu limpo"), WeatherType(1, "Ceu pouco nublado")>>, "undefined"),
      NoData }

Warning(type, text, startTime) ==
    [isNull |-> FALSE, awarenessTypeName |-> type, idAreaAviso |-> "LSB",
     awarenessLevelID |-> "yellow", text |-> text, startTime |-> startTime,
     endTime |-> "2025-01-02T10:00:00"]

NullWarning ==
    [isNull |-> TRUE, awarenessTypeName |-> "", idAreaAviso |-> "",
     awarenessLevelID |-> "", text |-> "", startTime |-> "", endTime |-> ""]

WarningLists ==
    { NotArray, Arr(<<>>),
      Arr(<<Warning("Vento", "Rajadas fortes", "2025-01-01T10:00:00")>>),
      Arr(<< Warning("Vento", "Rajadas fortes", "2025-01-01T10:00:00"),
             Warning("Chuva", "", "amanha") >>),
      Arr(<< Warning("Vento", "Rajadas fortes", "2025-01-01T10:00:00"), NullWarning >>) }

\* magnitud is a decimal string, depth a number (in tenths).
SeismicEvent(region, magnitud, depth) ==
    [time |-> "2025-01-01T10:00:00", obsRegion |-> region, magnitud |-> magnitud,
     magType |-> "L", depth |-> depth, lat |-> "38.0", lon |-> "-9.0",
     dataUpdate |-> "2025-01-01T11:00:00"]

SeismicEvents ==
    { SeismicEvent("NE Arraiolos", <<"2", ".", "1">>, 100),
      SeismicEvent("", <<"1", ".", "0">>, 50),
      SeismicEvent("Golfo Cadiz", <<"-", "9", "9", ".", "0">>, 310),
      SeismicEvent("SW Faro", <<"0", ".", "8">>, 0 - 990) }

SeismicLists ==
    {Api(q, "undefined") : q \in SeqsUpTo(SeismicEvents, MaxEvents)}
    \cup {Api([i \in 1..(SeismicLimit + 1) |->
                 SeismicEvent("NE Arraiolos", <<"2", ".", "1">>, 100 + i)], "undefined"),
          NoData}


\* Readings in tenths: -99.5, -99, -98.9 and 18.0.
ObsValues == {0 - 995, 0 - 990, 0 - 989, 180}

Observation(t, h, p, v, r) ==
    [isNull |-> FALSE, temperatura |-> t, humidade |-> h, pressao |-> p,
     intensidadeVento |-> v, precAcumulada |-> r]

NullObservation ==
    [isNull |-> TRUE, temperatura |-> 0, humidade |-> 0, pressao |-> 0,
     intensidadeVento |-> 0, precAcumulada |-> 0]

Observations ==
    {Observation(t, h, p, v, r) : t \in ObsValues, h \in ObsValues, p \in ObsValues,
                                  v \in ObsValues, r \in ObsValues}

Entry(k, v) == [key |-> k, val |-> v]

\* Timestamp keys are not integer-like; station ids are.
Stamp(s) == Key(0 - 1, s)
StationId(n) == Key(n, "")

CalmObservation == Observation(180, 180, 180, 180, 180)
ColdObservation == Observation(0 - 989, 180, 0 - 990, 180, 0 - 995)

\* The observations.json payloads: an object of timestamp buckets, each an
\* object of station readings, both in document order.
ObservationPayloads ==
    { <<>> }
    \cup { <<Entry(Stamp("2025-01-01T10:00"), <<Entry(StationId(7), o)>>)>> :
             o \in Observations }
    \cup { << Entry(Stamp("2025-01-01T09:00"), <<Entry(StationId(7), CalmObservation)>>),
              Entry(Stamp("2025-01-01T10:00"), <<Entry(StationId(7), ColdObservation)>>) >>,
           << Entry(Stamp("2025-01-01T10:00"), <<Entry(StationId(7), ColdObservation)>>),
              Entry(Stamp("2025-01-01T09:00"), <<Entry(StationId(7), CalmObservation)>>) >>,
           << Entry(Stamp("2025-01-01T10:00"),
                    << Entry(StationId(7), ColdObservation),
                       Entry(StationId(3), CalmObservation) >>) >>,
           << Entry(Stamp("2025-01-01T10:00"),
                    << Entry(StationId(7), CalmObservation),
                       Entry(StationId(3), NullObservation) >>) >>,
           << Entry(Stamp("2025-01-01T10:00"),
                    [i \in 1..(StationLimit + 1) |->
                       Entry(StationId(100 - i), CalmObservation)]) >> }

Station(id, name) == [idEstacao |-> StationId(id), localEstacao |-> name]

StationCatalogs ==
    { NotArray, Arr(<<>>),
      Arr(<<Station(7, "Lisboa"), Station(3, "Porto"), Station(7, "Lisboa (Geofisico)")>>) }

UVEntry(date, id, iUv) ==
    [data |-> Stamp(date), globalIdLocal |-> id, iUv |-> iUv, intervaloHora |-> "12h-15h"]

UvStrings ==
    { <<"2", ".", "0">>, <<"5", ".", "0">>, <<"5", ".", "1">>, <<"7", ".", "0">>,
      <<"7", ".", "1">>, <<"1", "0", ".", "0">>, <<"1", "0", ".", "1">>,
      <<"0", ".", "3">>, <<"2", ".", "1">>, <<"6">>, <<"1", "2", ".", "5">>,
      <<"-", "9", "9", ".", "0">>, <<"-", "9", "9", ".", "5">>, <<"n", "a">> }

UvLists ==
    { NotArray, Arr(<<>>) }
    \cup { Arr(<<UVEntry("2025-01-01", 11, u)>>) : u \in UvStrings }
    \cup { Arr([i \in 1..(UvDateLimit + 1) |-> UVEntry(<<"2025-01-0", i>>, 22, <<"6">>)]),
           Arr([i \in 1..(UvEntryLimit + 1) |-> UVEntry("2025-01-01", 10 + i, <<"6">>)]),
           Arr(<< UVEntry("2025-01-02", 11, <<"7", ".", "1">>),
                  UVEntry("2025-01-01", 22, <<"2", ".", "0">>),
                  UVEntry("2025-01-02", 33, <<"5", ".", "1">>) >>) }

\* The JSON values the endpoint of a URL can answer with.
Payloads(url) ==
    CASE url.path = "/distrits-islands.json" -> LocationCatalogs
      [] url.path = "/forecast/meteorology/cities/daily/" -> ForecastSeries
      [] url.path = "/weather-type-classe.json" -> WeatherTypeCatalogs
      [] url.path = "/forecast/warnings/warnings_www.json" -> WarningLists
      [] url.path = "/observation/seismic/" -> SeismicLists
      [] url.path = "/observation/meteorology/stations/observations.json" ->
           ObservationPayloads
      [] url.path = "/observation/meteorology/stations/stations.json" -> StationCatalogs
      [] url.path = "/forecast/meteorology/uv/uv.json" -> UvLists

\* What `await fetch(url)` rejects with, and what `await response.json()`
\* rejects with.
FetchErrors == {JsError("request failed, reason: getaddrinfo ENOTFOUND api.ipma.pt")}
JsonErrors == {JsError("invalid json response body, reason: Unexpected token <")}

\* The Response object a fetch resolves to; the code only calls json() on it.
Response == [t |-> "response"]

-----------------------------------------------------------------------------
\* The state machine.
\*   pc[c]      where call c stands: "unused", "idle" (not yet received),
\*              "fetch" (awaiting fetch), "json" (awaiting response.json()),
\*              "done" (settled)
\*   req[c]     the request of call c
\*   fetches[c] the URLs call c has passed to fetch, in order
\*   resp[c]    the awaits of call c settled so far
\*   caught[c]  the error the first catch block entered by call c received
\*   result[c]  what call c settled with: a text result or an error

NoRequest == [name |-> "", arguments |-> NoArguments]
NoResult == [kind |-> "none", text |-> <<>>, error |-> NoError]

Init ==
    /\ pc = [c \in Calls |-> IF c = 1 THEN "idle" ELSE "unused"]
    /\ req = [c \in Calls |-> NoRequest]
    /\ fetches = [c \in Calls |-> <<>>]
    /\ resp = [c \in Calls |-> <<>>]
    /\ caught = [c \in Calls |-> NoError]
    /\ result = [c \in Calls |-> NoResult]

\* What the call settles with when it does eff (old while it is suspended).
Outcome(eff, old) ==
    CASE eff.e = "return" -> [kind |-> "text", text |-> eff.text, error |-> NoError]
      [] eff.e = "throw" -> [kind |-> "error", text |-> <<>>, error |-> eff.err]
      [] OTHER -> old

\* Call c, holding the settled awaits, does eff: it suspends at its next await
\* or settles.
Apply(c, settled, eff) ==
    /\ resp' = [resp EXCEPT ![c] = settled]
    /\ pc' = [pc EXCEPT ![c] = IF eff.e \in {"fetch", "json"} THEN eff.e ELSE "done"]
    /\ fetches' = [fetches EXCEPT ![c] = IF eff.e = "fetch" THEN Append(@, eff.url) ELSE @]
    /\ caught' = [caught EXCEPT ![c] = eff.caught]
    /\ result' = [result EXCEPT ![c] = Outcome(eff, @)]

\* A server keeping the location catalog in a field: a call that would start
\* by fetching the catalog takes the one another call has parsed instead.
CatalogCache(c) ==
    {d \in Calls \ {c} : /\ Len(resp[d]) >= 2
                         /\ fetches[d][1].path = "/distrits-islands.json"
                         /\ resp[d][2].ok}

SettledFromCache(c, request, settled) ==
    IF /\ settled = <<>>
       /\ CatalogCache(c) # {}
       /\ CallToolHandler(request, <<>>).e = "fetch"
       /\ CallToolHandler(request, <<>>).url.path = "/distrits-islands.json"
    THEN SubSeq(resp[CHOOSE d \in CatalogCache(c) : TRUE], 1, 2)
    ELSE settled

RunFrom(c, request, settled) == Apply(c, settled, CallToolHandler(request, settled))

AdvanceWithCatalogCache(c, request, settled) ==
    RunFrom(c, request, SettledFromCache(c, request, settled))

\* Call c runs on from the awaits `settled` up to its next await or its end.
Advance(c, request, settled) ==
    Apply(c, settled, CallToolHandler(request, settled))

\* The URL of the fetch call c issued last.
LastUrl(c) == fetches[c][Len(fetches[c])]

\* The bodies the upstream can answer the outstanding fetch of call c with.
Bodies(c) == IF fetches[c] = <<>> THEN {} ELSE Payloads(LastUrl(c))

\* The server receives a tools/call request and runs its handler up to the
\* first await.
CallTool(c, request) ==
    /\ pc[c] = "idle"
    /\ req' = [req EXCEPT ![c] = request]
    /\ Advance(c, request, <<>>)

\* The outstanding fetch resolves to a Response.
FetchResolves(c) ==
    /\ pc[c] = "fetch"
    /\ Advance(c, req[c], Append(resp[c], Resolved(Response)))
    /\ UNCHANGED req

\* The outstanding fetch rejects (network failure).
FetchRejects(c, error) ==
    /\ pc[c] = "fetch"
    /\ Advance(c, req[c], Append(resp[c], Rejected(error)))
    /\ UNCHANGED req

\* response.json() resolves to the parsed body.
JsonResolves(c) ==
    /\ pc[c] = "json"
    /\ \E value \in Bodies(c) : Advance(c, req[c], Append(resp[c], Resolved(value)))
    /\ UNCHANGED req

\* response.json() rejects (the body is not JSON).
JsonRejects(c, error) ==
    /\ pc[c] = "json"
    /\ Advance(c, req[c], Append(resp[c], Rejected(error)))
    /\ UNCHANGED req

Next ==
    \E c \in Calls :
        \/ \E request \in Requests : CallTool(c, request)
        \/ FetchResolves(c)
        \/ \E error \in FetchErrors : FetchRejects(c, error)
        \/ JsonResolves(c)
        \/ \E error \in JsonErrors : JsonRejects(c, error)

Spec == Init /\ [][Next]_vars

-----------------------------------------------------------------------------
\* Two calls in flight at once.  The handler is async: a call runs from one
\* await to the next without interruption, and while it is suspended the
\* other call may be received or resumed.

\* The requests and the upstream answers of the interleaved runs.
InterleavedRequests ==
    { [name |-> "get_weather_forecast", arguments |-> NoArguments],
      [name |-> "get_weather_forecast",
       arguments |-> Arguments(Str(<<"b">>), Undefined, Undefined)],
      [name |-> "get_weather_forecast",
       arguments |-> Arguments(Str(<<"a", "b">>), Num(1), Undefined)],
      [name |-> "get_locations", arguments |-> NoArguments],
      [name |-> "get_uv_forecast", arguments |-> NoArguments],
      [name |-> "get_weather_warnings", arguments |-> NoArguments],
      [name |-> "get_seismic_data",
       arguments |-> Arguments(Undefined, Undefined, Str(Azores))],
      [name |-> "get_weather_stations", arguments |-> NoArguments],
      [name |-> "get_forecast", arguments |-> NoArguments] }

InterleavedPayloads(url) ==
    IF url.path = "/observation/meteorology/stations/observations.json"
    THEN
    { << Entry(Stamp("2025-01-01T09:00"), <<Entry(StationId(7), CalmObservation)>>),
         Entry(Stamp("2025-01-01T10:00"), <<Entry(StationId(7), ColdObservation)>>) >> }
    ELSE
    { Api(<<Location(11, <<"A", "b">>, 2), Location(22, <<"b", "A", "b">>, 1)>>,
          "undefined"),
      Api(<<Location(22, <<"b", "A", "b">>, 1)>>, "undefined"),
      Api([i \in 1..2 |-> ForecastDay(i)], "2025-01-01T09:00:00"),
      Api(<<WeatherType(0, "Sem informacao"), WeatherType(1, "Ceu limpo")>>, "undefined"),
      NoData,
      Arr(<<UVEntry("2025-01-01", 11, <<"6">>)>>),
      Arr(<<Warning("Vento", "Rajadas fortes", "2025-01-01T10:00:00")>>),
      Api(<<SeismicEvent("NE Arraiolos", <<"2", ".", "1">>, 100)>>, "undefined"),
      Arr(<<Station(7, "Lisboa"), Station(3, "Porto"), Station(7, "Lisboa (Geofisico)")>>),
      NotArray }

\* Both calls are still to be received.
InitInterleaved ==
    /\ pc = [c \in Calls |-> "idle"]
    /\ req = [c \in Calls |-> NoRequest]
    /\ fetches = [c \in Calls |-> <<>>]
    /\ resp = [c \in Calls |-> <<>>]
    /\ caught = [c \in Calls |-> NoError]
    /\ result = [c \in Calls |-> NoResult]

\* response.json() resolves to one of the answers of the interleaved runs.
JsonResolvesInterleaved(c) ==
    /\ JsonResolves(c)
    /\ resp'[c][Len(resp'[c])].v \in InterleavedPayloads(LastUrl(c))

NextInterleaved ==
    \E c \in Calls :
        \/ \E request \in InterleavedRequests : CallTool(c, request)
        \/ FetchResolves(c)
        \/ \E error \in FetchErrors : FetchRejects(c, error)
        \/ JsonResolvesInterleaved(c)
        \/ \E error \in JsonErrors : JsonRejects(c, error)

SpecInterleaved == InitInterleaved /\ [][NextInterleaved]_vars

-----------------------------------------------------------------------------
\* Properties.

Started(c) == pc[c] \in {"fetch", "json", "done"}
Done(c) == pc[c] = "done"
IsForecast(c) == Started(c) /\ req[c].name = "get_weather_forecast"

\* The awaits of call c that rejected.
RejectedAwaits(c) == {i \in 1..Len(resp[c]) : ~resp[c][i].ok}

\* toolArgs?.city of the request of call c.
CityOf(c) == IF req[c].arguments.present THEN req[c].arguments.city ELSE Undefined

\* C1: a get_weather_forecast call whose parameters lack `city` (no
\* parameters, {} or city undefined) ends with an InvalidParams error and
\* issues no fetch.
C1_MissingCityIsInvalidParams ==
    \A c \in Calls :
        (IsForecast(c) /\ CityOf(c) = Undefined) =>
            /\ Done(c)
            /\ fetches[c] = <<>>
            /\ result[c].kind = "error"
            /\ result[c].error.mcp
            /\ result[c].error.code = "InvalidParams"

C1_Witness ==
    \E c \in Calls :
        /\ IsForecast(c) /\ Done(c)
        /\ req[c].arguments.present /\ req[c].arguments.city = Undefined
        /\ req[c].arguments.days = Num(3)
        /\ result[c].error.code = "InvalidParams"
        /\ fetches[c] = <<>>

\* C2: a call naming none of the six tools ends with a MethodNotFound
\* error, which is the very error the outer catch received (it is not
\* rewrapped as InternalError), and issues no fetch.
C2_UnknownToolIsMethodNotFound ==
    \A c \in Calls :
        (Started(c) /\ req[c].name \notin ToolNames) =>
            /\ Done(c)
            /\ fetches[c] = <<>>
            /\ result[c].kind = "error"
            /\ result[c].error = McpError("MethodNotFound",
                                          <<"Tool ", req[c].name, " not found">>)
            /\ result[c].error = caught[c]

C2_Witness ==
    \E c \in Calls :
        /\ Done(c) /\ req[c].name = "get_forecast"
        /\ result[c].error.code = "MethodNotFound"
        /\ caught[c].code = "MethodNotFound"

\* C3: when an await of a call of one of the six tools rejects (fetch or
\* response.json()), or the handler's own logic throws, the call ends with
\* one InternalError whose message contains the message of the original
\* failure, and with no text; a call that returns text had no failure.
C3_FailureIsOneInternalError ==
    \A c \in Calls :
        (Done(c) /\ req[c].name \in ToolNames) =>
            /\ (RejectedAwaits(c) # {} \/ (caught[c] # NoError /\ ~caught[c].mcp)) =>
                  /\ result[c].kind = "error"
                  /\ result[c].text = <<>>
                  /\ result[c].error.mcp
                  /\ result[c].error.code = "InternalError"
                  /\ ErrorMessage(caught[c]) # <<>>
                  /\ Includes(result[c].error.message, ErrorMessage(caught[c]))
                  /\ \A i \in RejectedAwaits(c) : caught[c] = resp[c][i].err
            /\ result[c].kind = "text" =>
                  (RejectedAwaits(c) = {} /\ caught[c] = NoError)
            /\ result[c].kind \in {"text", "error"}

\* The weather-type fetch, third of a forecast call, fails at the network.
C3_Witness ==
    \E c \in Calls :
        /\ IsForecast(c) /\ Done(c)
        /\ Len(fetches[c]) = 3
        /\ RejectedAwaits(c) = {5}
        /\ result[c].error.code = "InternalError"
        /\ Includes(result[c].error.message, ErrorMessage(resp[c][5].err))

\* A handler's own logic throws: the forecast JSON has no `data`.
C3_WitnessFormatterThrows ==
    \E c \in Calls :
        /\ Done(c) /\ RejectedAwaits(c) = {}
        /\ caught[c] = TypeErrorReading("slice")
        /\ result[c].error.code = "InternalError"

\* C4: a get_weather_forecast call whose `city` is present but is not a
\* non-empty string ends with an InvalidParams error and issues no fetch.
C4_MalformedCityIsInvalidParams ==
    \A c \in Calls :
        (IsForecast(c) /\ CityOf(c) # Undefined
            /\ (CityOf(c).t # "string" \/ CityOf(c).s = <<>>)) =>
            /\ fetches[c] = <<>>
            /\ Done(c)
            /\ result[c].kind = "error"
            /\ result[c].error.code = "InvalidParams"


\* Two letters equal up to case.
SameLetter(a, b) ==
    \/ a = b
    \/ a \in DOMAIN UpperMap /\ UpperMap[a] = b
    \/ b \in DOMAIN UpperMap /\ UpperMap[b] = a

\* input occurs in name as a contiguous run, letter case ignored.
ContainsIgnoringCase(name, input) ==
    \E i \in 0..(Len(name) - Len(input)) :
        \A j \in 1..Len(input) : SameLetter(name[i + j], input[j])

EqualIgnoringCase(a, b) ==
    Len(a) = Len(b) /\ \A j \in 1..Len(a) : SameLetter(a[j], b[j])

\* Call c is a forecast call for a non-empty string city that holds a parsed
\* location catalog.
HoldsCatalog(c) ==
    /\ IsForecast(c)
    /\ CityOf(c).t = "string" /\ CityOf(c).s # <<>>
    /\ Len(resp[c]) >= 2 /\ resp[c][2].ok /\ resp[c][2].v.hasData

CatalogOf(c) == resp[c][2].v.data

\* The catalog positions whose display name contains the city of call c.
MatchesOf(c) ==
    {i \in 1..Len(CatalogOf(c)) : ContainsIgnoringCase(CatalogOf(c)[i].local, CityOf(c).s)}

FirstMatchOf(c) ==
    CatalogOf(c)[CHOOSE i \in MatchesOf(c) : \A j \in MatchesOf(c) : i <= j]

\* C5: city resolution takes the first catalog entry, in catalog order, whose
\* display name contains the input ignoring case: the forecast is fetched
\* for its id and the text is headed by its name.  When no entry matches the
\* call returns the 'not found' text as a text result, having fetched the
\* location catalog only.
C5_FirstMatchOrNotFound ==
    \A c \in Calls :
        HoldsCatalog(c) =>
            IF MatchesOf(c) = {}
            THEN /\ Done(c)
                 /\ result[c] = [kind |-> "text",
                                 text |-> <<Line("CidadeNaoEncontrada", CityOf(c))>>,
                                 error |-> NoError]
                 /\ fetches[c] = <<Url("/distrits-islands.json", 0)>>
            ELSE /\ Len(fetches[c]) >= 2
                 /\ fetches[c][2] = Url("/forecast/meteorology/cities/daily/",
                                        FirstMatchOf(c).globalIdLocal)
                 /\ result[c].kind = "text" =>
                        result[c].text[1] = Line("Previsao", FirstMatchOf(c).local)

\* Two entries match and the forecast is rendered for the first of them.
C5_Witness ==
    \E c \in Calls :
        /\ HoldsCatalog(c) /\ Done(c)
        /\ Cardinality(MatchesOf(c)) = 2
        /\ CatalogOf(c)[1].globalIdLocal = 22
        /\ result[c].kind = "text"
        /\ result[c].text[1] = Line("Previsao", <<"b", "A", "b">>)

\* No entry matches: the informational text, after one fetch.
C5_WitnessNotFound ==
    \E c \in Calls :
        /\ HoldsCatalog(c) /\ Done(c)
        /\ Len(CatalogOf(c)) = 2 /\ MatchesOf(c) = {}
        /\ result[c].kind = "text" /\ Len(fetches[c]) = 1

-----------------------------------------------------------------------------

\* Call c is a forecast call that rendered a forecast.
Rendered(c) ==
    /\ IsForecast(c) /\ Done(c)
    /\ result[c].kind = "text" /\ Len(resp[c]) = 6

\* The number of day paragraphs in the text of call c.
DayParagraphs(c) ==
    Cardinality({i \in 1..Len(result[c].text) : result[c].text[i].k = "Dia"})

SeriesLength(c) == Len(resp[c][4].v.data)

Min(a, b) == IF a <= b THEN a ELSE b
Max(a, b) == IF a >= b THEN a ELSE b

\* C6 as stated: for every `days` the caller supplies (5 when omitted), the
\* number of day paragraphs is min(days, length of the series).  Stated for
\* the values of `days` for which that minimum is a count, days >= 0.
C6_DaysClampAnyDays ==
    \A c \in Calls :
        LET days == req[c].arguments.days IN
        (Rendered(c) /\ (days = Undefined \/ days.n >= 0)) =>
            DayParagraphs(c) = Min(IF days = Undefined THEN 5 ELSE days.n, SeriesLength(c))

\* C6, amended: for every integer `days` >= 1 the number of day paragraphs is
\* min(days, length of the series), so every days >= the length renders the
\* whole series; `days` omitted or 0 renders min(5, length); a negative
\* `days` renders max(length + days, 0).
C6_DaysClamp ==
    \A c \in Calls :
        Rendered(c) =>
            LET days == req[c].arguments.days IN
            DayParagraphs(c) =
                CASE days = Undefined -> Min(5, SeriesLength(c))
                  [] days.n = 0 -> Min(5, SeriesLength(c))
                  [] days.n >= 1 -> Min(days.n, SeriesLength(c))
                  [] OTHER -> Max(SeriesLength(c) + days.n, 0)

\* `days` beyond the series: the whole series is rendered.
C6_Witness ==
    \E c \in Calls :
        /\ Rendered(c)
        /\ req[c].arguments.days # Undefined
        /\ SeriesLength(c) >= 3
        /\ req[c].arguments.days.n > SeriesLength(c)
        /\ DayParagraphs(c) = SeriesLength(c)

\* `days` below the series: `days` paragraphs are rendered.
C6_WitnessClamped ==
    \E c \in Calls :
        /\ Rendered(c)
        /\ req[c].arguments.days = Num(2)
        /\ SeriesLength(c) = 6
        /\ DayParagraphs(c) = 2

-----------------------------------------------------------------------------

IsSeismic(c) == Started(c) /\ req[c].name = "get_seismic_data"

\* toolArgs?.area of the request of call c.
AreaOf(c) == IF req[c].arguments.present THEN req[c].arguments.area ELSE Undefined

\* What the same awaits give a get_seismic_data call for area "continent".
ContinentOutcome(c) ==
    Outcome(CallToolHandler([name |-> "get_seismic_data",
                             arguments |-> Arguments(Undefined, Undefined, Str(Continent))],
                            resp[c]),
            NoResult)

\* The area string the handler receives is, letter case ignored, none of
\* continent, azores, madeira.
OtherArea(area) ==
    /\ area.t = "string"
    /\ \A known \in {Continent, Azores, Madeira} : ~EqualIgnoringCase(area.s, known)

\* C7 as stated: for every `area` outside {continent, azores, madeira}
\* (omitted, "all", unrecognized strings) the call fetches the endpoint of
\* area id 1 and returns, for the same upstream response, the very result of
\* area="continent".
C7_OtherAreaIsContinentVerbatim ==
    \A c \in Calls :
        LET area == IF AreaOf(c) \in {Undefined, Str(<<>>)} THEN Str(All) ELSE AreaOf(c) IN
        (IsSeismic(c) /\ OtherArea(area)) =>
            /\ fetches[c] = <<Url("/observation/seismic/", 1)>>
            /\ Done(c) => result[c] = ContinentOutcome(c)

\* C7, amended: for every `area` that is omitted, falsy or a string which,
\* letter case ignored, is none of continent, azores, madeira, the call
\* fetches the endpoint of area id 1 and, for the same upstream response,
\* ends as area="continent" ends, except that the title line of a non-empty
\* listing carries the caller's area string ("all" when omitted) where
\* continent's carries "continent".
C7_OtherAreaIsContinent ==
    \A c \in Calls :
        LET area == IF AreaOf(c) \in {Undefined, Str(<<>>)} THEN Str(All) ELSE AreaOf(c) IN
        (IsSeismic(c) /\ OtherArea(area)) =>
            /\ fetches[c] = <<Url("/observation/seismic/", 1)>>
            /\ Done(c) =>
                 LET ref == ContinentOutcome(c) IN
                 /\ result[c].kind = ref.kind
                 /\ result[c].error = ref.error
                 /\ Len(result[c].text) = Len(ref.text)
                 /\ \A i \in 1..Len(ref.text) :
                        IF ref.text[i].k = "DadosSismicos"
                        THEN /\ ref.text[i].v = Continent
                             /\ result[c].text[i] = Line("DadosSismicos", area.s)
                        ELSE result[c].text[i] = ref.text[i]

\* The default area: continent's events under the title "all".
C7_Witness ==
    \E c \in Calls :
        /\ IsSeismic(c) /\ Done(c)
        /\ AreaOf(c) = Undefined
        /\ result[c].kind = "text"
        /\ Len(result[c].text) > 2
        /\ result[c].text[1] = Line("DadosSismicos", All)
        /\ fetches[c] = <<Url("/observation/seismic/", 1)>>

-----------------------------------------------------------------------------

ReadingLabels == {"Temperatura", "Humidade", "Pressao", "Vento", "Precipitacao"}

\* The labels of the reading lines in the text of call c.
RenderedReadings(c) ==
    {result[c].text[i].k : i \in {j \in 1..Len(result[c].text) :
                                     result[c].text[j].k \in ReadingLabels}}

\* Call c returned the text of operation name.
Returned(c, name) == Done(c) /\ req[c].name = name /\ result[c].kind = "text"

\* Station texts: no reading line carries a value at or below -99, and for a
\* payload of one bucket with one station each of the five readings is
\* rendered exactly when its value is above -99.
StationsSuppressSentinel ==
    \A c \in Calls :
        Returned(c, "get_weather_stations") =>
            /\ \A i \in 1..Len(result[c].text) :
                   result[c].text[i].k \in ReadingLabels => result[c].text[i].v > 0 - 990
            /\ (Len(resp[c][2].v) = 1 /\ Len(resp[c][2].v[1].val) = 1) =>
                   LET obs == resp[c][2].v[1].val[1].val IN
                   /\ ("Temperatura" \in RenderedReadings(c)) <=> (obs.temperatura > 0 - 990)
                   /\ ("Humidade" \in RenderedReadings(c)) <=> (obs.humidade > 0 - 990)
                   /\ ("Pressao" \in RenderedReadings(c)) <=> (obs.pressao > 0 - 990)
                   /\ ("Vento" \in RenderedReadings(c)) <=> (obs.intensidadeVento > 0 - 990)
                   /\ ("Precipitacao" \in RenderedReadings(c)) <=> (obs.precAcumulada > 0 - 990)

\* UV texts: no UV line carries an index at or below -99.
UvSuppressSentinel ==
    \A c \in Calls :
        Returned(c, "get_uv_forecast") =>
            \A i \in 1..Len(result[c].text) :
                result[c].text[i].k = "UV" =>
                    LET v == ParseFloat(result[c].text[i].v.iUv) IN v.nan \/ v.n > 0 - 990

\* Seismic texts: no magnitude or depth line carries a value at or below -99.
SeismicSuppressSentinel ==
    \A c \in Calls :
        Returned(c, "get_seismic_data") =>
            \A i \in 1..Len(result[c].text) :
                /\ result[c].text[i].k = "Magnitude" =>
                       LET v == ParseFloat(result[c].text[i].v[1]) IN v.nan \/ v.n > 0 - 990
                /\ result[c].text[i].k = "Profundidade" => result[c].text[i].v > 0 - 990

\* C8: the station, UV and seismic texts never render a value at or below
\* the unavailable sentinel -99: a station reading is rendered exactly when
\* it is above -99, and no UV index, seismic magnitude or depth at or below
\* -99 appears in the text.
C8_NoSentinelRendered ==
    StationsSuppressSentinel /\ UvSuppressSentinel /\ SeismicSuppressSentinel

\* temperature -99.5 and humidity 18.0: the humidity line only.
StationsSuppressWitness ==
    \E c \in Calls :
        /\ Returned(c, "get_weather_stations")
        /\ Len(resp[c][2].v) = 1 /\ Len(resp[c][2].v[1].val) = 1
        /\ resp[c][2].v[1].val[1].val =
               Observation(0 - 995, 180, 0 - 990, 0 - 990, 0 - 995)
        /\ RenderedReadings(c) = {"Humidade"}

-----------------------------------------------------------------------------

\* The band of an index of v tenths.
BandOf(v) ==
    CASE v <= 20 -> "Baixo"
      [] v > 20 /\ v <= 50 -> "Moderado"
      [] v > 50 /\ v <= 70 -> "Alto"
      [] v > 70 /\ v <= 100 -> "Muito Alto"
      [] v > 100 -> "Extremo"

BandExamples ==
    { << <<"2", ".", "0">>, "Baixo" >>, << <<"5", ".", "0">>, "Moderado" >>,
      << <<"5", ".", "1">>, "Alto" >>, << <<"7", ".", "0">>, "Alto" >>,
      << <<"7", ".", "1">>, "Muito Alto" >>, << <<"1", "0", ".", "0">>, "Muito Alto" >>,
      << <<"1", "0", ".", "1">>, "Extremo" >> }

\* C9: every UV line whose index is numeric carries the band of that index:
\* <= 2 Baixo (Low), <= 5 Moderado, <= 7 Alto (High), <= 10 Muito Alto,
\* above 10 Extremo; 2.0 is Low, 5.0 Moderate, 5.1 High, 7.0 High, 7.1 Very
\* High, 10.0 Very High, 10.1 Extreme.
C9_UvBands ==
    \A c \in Calls :
        Returned(c, "get_uv_forecast") =>
            \A i \in 1..Len(result[c].text) :
                result[c].text[i].k = "UV" =>
                    LET line == result[c].text[i].v
                        v == ParseFloat(line.iUv)
                    IN  /\ ~v.nan => line.categoria = BandOf(v.n)
                        /\ \A ex \in BandExamples :
                               line.iUv = ex[1] => line.categoria = ex[2]

\* 7.0 is rendered as High.
C9_Witness ==
    \E c \in Calls :
        /\ Returned(c, "get_uv_forecast")
        /\ \E i \in 1..Len(result[c].text) :
               /\ result[c].text[i].k = "UV"
               /\ result[c].text[i].v.iUv = <<"7", ".", "0">>
               /\ result[c].text[i].v.categoria = "Alto"

-----------------------------------------------------------------------------

\* The fetches of a forecast call that resolves its city to id.
ForecastFetches(id) ==
    << Url("/distrits-islands.json", 0),
       Url("/forecast/meteorology/cities/daily/", id),
       Url("/weather-type-classe.json", 0) >>

\* The number of responses call c has received and parsed.
Parsed(c) == Cardinality({i \in 1..Len(resp[c]) : i % 2 = 0 /\ resp[c][i].ok})

\* C10: a forecast call issues its fetches in the order location catalog,
\* forecast of the resolved id, weather-type catalog; the k-th fetch is
\* issued only when k - 1 responses have been received and parsed, so at
\* most one is outstanding; after a fetch or its parsing fails no further
\* fetch is issued; and a call whose city resolves and whose fetches all
\* succeed has issued exactly these three when it ends.
C10_ThreeSequentialFetches ==
    \A c \in Calls :
        IsForecast(c) =>
            /\ Len(fetches[c]) <= 3
            /\ \A k \in 1..Len(fetches[c]) :
                   /\ fetches[c][k].path = ForecastFetches(0)[k].path
                   /\ Parsed(c) >= k - 1
            /\ Len(fetches[c]) <= Parsed(c) + 1
            /\ (pc[c] \in {"fetch", "json"}) =>
                   (Len(fetches[c]) = Parsed(c) + 1 /\ RejectedAwaits(c) = {})
            /\ \A i \in RejectedAwaits(c) :
                   Done(c) /\ i = Len(resp[c]) /\ Len(fetches[c]) = (i + 1) \div 2
            /\ (HoldsCatalog(c) /\ MatchesOf(c) # {}) =>
                   /\ Len(fetches[c]) >= 2
                   /\ \A k \in 1..Len(fetches[c]) :
                          fetches[c][k] = ForecastFetches(FirstMatchOf(c).globalIdLocal)[k]
                   /\ (Done(c) /\ RejectedAwaits(c) = {}) =>
                          fetches[c] = ForecastFetches(FirstMatchOf(c).globalIdLocal)

C10_Witness ==
    \E c \in Calls :
        /\ Rendered(c)
        /\ fetches[c] = ForecastFetches(33)
        /\ Parsed(c) = 3

\* The forecast fetch fails: the weather-type catalog is never fetched.
C10_WitnessFailure ==
    \E c \in Calls :
        /\ IsForecast(c) /\ Done(c)
        /\ RejectedAwaits(c) = {3}
        /\ Len(fetches[c]) = 2

-----------------------------------------------------------------------------
\* get_locations: the groups of the rendered text.

\* The catalog a get_locations call has parsed.
LocationsOf(c) == resp[c][2].v.data

\* The positions of the group headers and of the location lines in the text
\* of call c.
GroupHeaders(c) == {i \in 1..Len(result[c].text) : result[c].text[i].k = "Regiao"}
LocationEntries(c) == {i \in 1..Len(result[c].text) : result[c].text[i].k = "Local"}

\* The district id heading the group that the location line at q is in: the
\* one of the nearest header above it.
GroupOf(c, q) ==
    result[c].text[CHOOSE p \in GroupHeaders(c) :
                      p < q /\ \A o \in GroupHeaders(c) : o < q => o <= p].v

\* The catalog positions whose location the line at q shows.
CatalogPositions(c, q) ==
    {i \in 1..Len(LocationsOf(c)) :
        result[c].text[q].v = <<LocationsOf(c)[i].local, LocationsOf(c)[i].latitude,
                                LocationsOf(c)[i].longitude>>}

DistrictsOf(c) == {LocationsOf(c)[i].idDistrito : i \in 1..Len(LocationsOf(c))}

\* The catalog position at which district d is first seen.
FirstSeen(c, d) ==
    CHOOSE i \in 1..Len(LocationsOf(c)) :
        /\ LocationsOf(c)[i].idDistrito = d
        /\ \A j \in 1..(i - 1) : LocationsOf(c)[j].idDistrito # d

\* One group per distinct district id; every catalog location is shown in
\* exactly one group, that of its district; within a group the locations are
\* in catalog order.
GroupsPartitionCatalog(c) ==
    /\ {result[c].text[p].v : p \in GroupHeaders(c)} = DistrictsOf(c)
    /\ Cardinality(GroupHeaders(c)) = Cardinality(DistrictsOf(c))
    /\ Cardinality(LocationEntries(c)) = Len(LocationsOf(c))
    /\ \A q \in LocationEntries(c) : \E p \in GroupHeaders(c) : p < q
    /\ \A i \in 1..Len(LocationsOf(c)) :
           \E q \in LocationEntries(c) :
               /\ CatalogPositions(c, q) = {i}
               /\ GroupOf(c, q) = LocationsOf(c)[i].idDistrito
    /\ \A q1, q2 \in LocationEntries(c) :
           (q1 < q2 /\ GroupOf(c, q1) = GroupOf(c, q2)) =>
               \A i \in CatalogPositions(c, q1) : \A j \in CatalogPositions(c, q2) : i < j

\* C11 as stated: get_locations renders one group per distinct district id,
\* the groups in the order in which each district id is first seen in the
\* catalog, the locations of a group in catalog order, every catalog location
\* in exactly one group.
C11_GroupsInFirstSeenOrder ==
    \A c \in Calls :
        Returned(c, "get_locations") =>
            /\ GroupsPartitionCatalog(c)
            /\ \A p1, p2 \in GroupHeaders(c) :
                   p1 < p2 => FirstSeen(c, result[c].text[p1].v)
                                < FirstSeen(c, result[c].text[p2].v)

\* C11, amended: get_locations renders one group per distinct district id,
\* the groups in ascending order of district id (Object.values enumerates
\* the integer keys of the grouping object in ascending order), the
\* locations of a group in catalog order, every catalog location in exactly
\* one group.
C11_GroupsInAscendingOrder ==
    \A c \in Calls :
        Returned(c, "get_locations") =>
            /\ GroupsPartitionCatalog(c)
            /\ \A p1, p2 \in GroupHeaders(c) :
                   p1 < p2 => result[c].text[p1].v < result[c].text[p2].v

\* A catalog of districts 2, 1, 2: the group of district 1 comes first, and
\* the group of district 2 holds the first and the third location.
C11_Witness ==
    \E c \in Calls :
        /\ Returned(c, "get_locations")
        /\ [i \in 1..Len(LocationsOf(c)) |-> LocationsOf(c)[i].idDistrito] = <<2, 1, 2>>
        /\ [i \in 1..Len(result[c].text) |-> result[c].text[i].k]
               = <<"LocaisDisponiveis", "Regiao", "Local", "", "Regiao", "Local", "Local", "">>
        /\ result[c].text[2].v = 1 /\ result[c].text[5].v = 2
        /\ result[c].text[3].v[1] = LocationsOf(c)[2].local
        /\ result[c].text[6].v[1] = LocationsOf(c)[1].local
        /\ result[c].text[7].v[1] = LocationsOf(c)[3].local

-----------------------------------------------------------------------------
\* get_weather_stations: the bucket and the stations of the rendered text.

\* The observation payload and the station catalog a get_weather_stations
\* call that returned text has parsed.
ObservationsOf(c) == resp[c][2].v
StationsOf(c) == resp[c][4].v.items

\* The timestamp keys of the observation payloads, in lexicographic order.
StampsInOrder == <<"2025-01-01T09:00", "2025-01-01T10:00">>

\* The place of timestamp key k in the lexicographic order.
LexRank(k) == CHOOSE i \in 1..Len(StampsInOrder) : StampsInOrder[i] = k.s

\* The first n elements of arr, all of them when it has fewer.
FirstN(arr, n) == [i \in 1..Min(Len(arr), n) |-> arr[i]]

\* The text of call c shows bucket b of its payload and nothing else: the
\* key of b as the time of observation, then the first 15 station ids of b
\* in its iteration order (Object.keys), each with the readings b holds.
RendersBucket(c, b) ==
    result[c].text =
        << Line("Observacoes", ""), Line("ObservacoesDe", ObservationsOf(c)[b].key.s) >>
        \o StationLines(FirstN(ObjectKeys(ObservationsOf(c)[b].val), 15),
                        ObservationsOf(c)[b].val, StationsOf(c))

\* C12 as stated: for a non-empty observation payload, get_weather_stations
\* renders readings from exactly one timestamp bucket, the one whose key is
\* lexicographically last among all bucket keys, and at most 15 stations
\* from it: the first 15 station ids in that bucket's iteration order.
C12_RendersLexicographicallyLastBucket ==
    \A c \in Calls :
        (Returned(c, "get_weather_stations") /\ ObservationsOf(c) # <<>>) =>
            \E b \in 1..Len(ObservationsOf(c)) :
                /\ \A o \in 1..Len(ObservationsOf(c)) :
                       LexRank(ObservationsOf(c)[o].key) <= LexRank(ObservationsOf(c)[b].key)
                /\ RendersBucket(c, b)

\* What the code does: it renders the bucket listed last in the payload.
StationsRenderLastListedBucket ==
    \A c \in Calls :
        (Returned(c, "get_weather_stations") /\ ObservationsOf(c) # <<>>) =>
            RendersBucket(c, Len(ObservationsOf(c)))

\* A payload listing the 10:00 bucket before the 09:00 bucket renders 09:00.
StationsRenderEarlierBucket ==
    \E c \in Calls :
        /\ Returned(c, "get_weather_stations")
        /\ [i \in 1..Len(ObservationsOf(c)) |-> ObservationsOf(c)[i].key.s]
               = <<"2025-01-01T10:00", "2025-01-01T09:00">>
        /\ result[c].text[2] = Line("ObservacoesDe", "2025-01-01T09:00")

\* A bucket of 16 stations renders 15, the ones of the smallest ids.
StationsRenderFirstFifteen ==
    \E c \in Calls :
        /\ Returned(c, "get_weather_stations")
        /\ Len(ObservationsOf(c)) = 1 /\ Len(ObservationsOf(c)[1].val) = 16
        /\ Cardinality({i \in 1..Len(result[c].text) : result[c].text[i].k = "Estacao"}) = 15
        /\ result[c].text[3] = Line("Estacao", <<"Estacao ", 84>>)

-----------------------------------------------------------------------------
\* Interleaved calls.

\* The awaits of call c that had settled when it issued its k-th fetch.
SettledBefore(c, k) == SubSeq(resp[c], 1, 2 * (k - 1))

\* The fetches the handler issues when it is run on the request of call c
\* and given the responses of call c, one after the other.
OwnFetchCount(c) ==
    Cardinality({k \in 1..(Len(resp[c]) \div 2 + 1) :
                    CallToolHandler(req[c], SettledBefore(c, k)).e = "fetch"})

OwnFetches(c) ==
    [k \in 1..OwnFetchCount(c) |-> CallToolHandler(req[c], SettledBefore(c, k)).url]

\* Call c stands where eff leaves a call that has nothing behind it.
StandsAt(c, eff) ==
    /\ pc[c] = (IF eff.e \in {"fetch", "json"} THEN eff.e ELSE "done")
    /\ result[c] = Outcome(eff, NoResult)
    /\ caught[c] = eff.caught

\* Where call c stands, what it has fetched and what it has settled with are
\* what the handler does with the request of c and the responses to the
\* fetches of c, whatever the other call has done; every JSON body c holds
\* is the answer to a fetch c itself issued.
DeterminedByOwnInputs(c) ==
    IF pc[c] = "idle"
    THEN /\ req[c] = NoRequest /\ resp[c] = <<>> /\ fetches[c] = <<>>
         /\ result[c] = NoResult /\ caught[c] = NoError
    ELSE /\ StandsAt(c, CallToolHandler(req[c], resp[c]))
         /\ fetches[c] = OwnFetches(c)
         /\ Len(resp[c]) <= 2 * Len(fetches[c])
         /\ \A k \in 1..Len(fetches[c]) :
                (2 * k <= Len(resp[c]) /\ resp[c][2 * k].ok) =>
                    resp[c][2 * k].v \in Payloads(fetches[c][k])
         /\ \E request \in InterleavedRequests : req[c] = request

\* A step is the step of one call: it leaves everything of the other call
\* as it was.
StepOfOneCall ==
    \E c \in Calls :
        \A d \in Calls \ {c} :
            /\ pc'[d] = pc[d] /\ req'[d] = req[d] /\ fetches'[d] = fetches[d]
            /\ resp'[d] = resp[d] /\ caught'[d] = caught[d] /\ result'[d] = result[d]

\* C13: with two calls interleaved at their awaits, every call's position,
\* fetches and outcome are determined by its own operation name, its own
\* parameters and the responses to its own fetches (they are what the handler
\* run alone on them gives, so what running the calls one after another
\* gives); no step of a call changes anything of the other call; every JSON
\* body a call uses was returned by a fetch of that call, so every call
\* fetches every catalog it needs.
C13_CallsAreIndependent ==
    /\ [](\A c \in Calls : DeterminedByOwnInputs(c))
    /\ [][StepOfOneCall]_vars

\* Two forecast calls for the same city are suspended at once, the first
\* awaiting the body of its forecast and the second its forecast fetch; each
\* has fetched the location catalog itself, they were answered with
\* different catalogs and each goes on with the location of its own.
C13_Witness ==
    /\ req[1] = req[2]
    /\ req[1].name = "get_weather_forecast" /\ req[1].arguments.city = Str(<<"b">>)
    /\ pc[1] = "json" /\ Len(resp[1]) = 3
    /\ pc[2] = "fetch" /\ Len(resp[2]) = 2
    /\ fetches[1][1] = fetches[2][1]
    /\ fetches[1][1].path = "/distrits-islands.json"
    /\ resp[1][2].v # resp[2][2].v
    /\ fetches[1][2].id = 11 /\ fetches[2][2].id = 22

\* Both calls have settled, with different texts for the same request.
C13_WitnessSettled ==
    /\ req[1] = req[2]
    /\ Returned(1, "get_weather_forecast") /\ Returned(2, "get_weather_forecast")
    /\ result[1].text # result[2].text
    /\ Len(fetches[1]) = 3 /\ Len(fetches[2]) = 3

=============================================================================
